---- MODULE Spec2Model ----
(***************************************************************************)
(* Model of the document-image augmentation core                           *)
(* (src/src/preprocessing/augmentation.py, class DocumentAugmenter).       *)
(*                                                                         *)
(* File names are sequences of one-character strings, so that the output   *)
(* naming (stem + "_original"/"_aug_NN" + suffix) is real concatenation.   *)
(* An image is a record [h, w, px]: its height, its width and its content, *)
(* the content being the source's identity followed by the operations      *)
(* applied to it.  The random source is one explicit state, advanced by    *)
(* every draw.                                                             *)
(***************************************************************************)
EXTENDS Integers, Sequences, FiniteSets, TLC

VARIABLES
    folder,       \* the input folder, in directory (enumeration) order
    output_size,  \* DocumentAugmenter.output_size, as passed to __init__
    rng,          \* state of the random source
    dirs,         \* output directories that exist
    fs,           \* content of each output directory: a set of [name, img]
    writes,       \* every cv2.imwrite of the run, in order: [dir, name, img, role, src]
    msgs,         \* user-visible per-file messages, in order
    pc,           \* "idle", or the operation that has completed
    args,         \* the arguments of the completed operation
    ret,          \* value returned by augment_dataset (total_created)
    train_files,  \* create_split_datasets: the training subset
    val_files,    \* create_split_datasets: the validation subset
    summary,      \* create_split_datasets: the recounted [train, val] report
    calls,        \* augment_image calls made directly: [image, n, light, rng0, out]
    input_exists, \* whether the input folder exists
    error,        \* the exception the completed operation ended with, or ""
    argv,         \* sys.argv of the command-line run, <<>> when there was none
    usage,        \* whether the command-line usage text has been printed
    template_dir, \* the template directory: [exists, files], files in glob order
    templates,    \* TemplateLoader.templates: [key, value] pairs in insertion order
    requests      \* the calls made on the loader: [op, doc_type, raised, value]

loaderVars == <<template_dir, templates, requests>>

cliVars == <<argv, usage>>

vars == <<folder, output_size, rng, dirs, fs, writes, msgs, pc, args, ret,
          train_files, val_files, summary, calls, input_exists, error, cliVars,
          loaderVars>>

----------------------------------------------------------------------------
(* Bounds of the model *)

MaxFiles == 3      \* files in a hand-made input folder
MaxBulk == 20      \* files in a generated input folder
MaxCount == 1      \* small variant counts: -1 .. MaxCount
ExampleTrain == 10 \* the train_aug of the worked example (also the default)
ExampleVal == 3    \* the val_aug of the worked example (also the default)
BigCount == 100    \* a variant count past the two-digit indices
MaxSeed == 1       \* initial states of the random source: 0 .. MaxSeed
RngMod == 16       \* number of states of the random source
MaxWrites == 240   \* a run is explored when it plans at most this many writes
MaxCalls == 2      \* direct augment_image calls in one behaviour

----------------------------------------------------------------------------
(* Strings *)

Digits == <<"0", "1", "2", "3", "4", "5", "6", "7", "8", "9">>

RECURSIVE Dec(_)
\* decimal rendering of n >= 0
Dec(n) == IF n < 10 THEN <<Digits[n + 1]>>
          ELSE Dec(n \div 10) \o <<Digits[(n % 10) + 1]>>

\* a mutation of Fmt02d: no zero padding
Fmt02d_nopad(n) == Dec(n)

\* f"{idx:02d}": decimal, zero-padded to a minimum width of 2
Fmt02d(n) == IF Len(Dec(n)) < 2 THEN <<"0">> \o Dec(n) ELSE Dec(n)

JPG == <<".", "j", "p", "g">>
PNG == <<".", "p", "n", "g">>
JPEG == <<".", "j", "p", "e", "g">>

S_original == <<"_", "o", "r", "i", "g", "i", "n", "a", "l">>
S_aug == <<"_", "a", "u", "g", "_">>

\* a mutation of OriginalName: every output is written as .jpg
OriginalName_jpg(f) == f.stem \o S_original \o JPG

\* f"{img_file.stem}_original{img_file.suffix}"
OriginalName(f) == f.stem \o S_original \o f.suffix

\* a mutation of AugName: every output is written as .jpg
AugName_jpg(f, idx) == f.stem \o S_aug \o Fmt02d(idx) \o JPG

\* f"{img_file.stem}_aug_{idx:02d}{img_file.suffix}"
AugName(f, idx) == f.stem \o S_aug \o Fmt02d(idx) \o f.suffix

----------------------------------------------------------------------------
(* Images and the random source *)

\* cv2.imread's None
None == [h |-> 0, w |-> 0, px |-> <<>>]

Src(id) == [kind |-> "src", a |-> id, b |-> 0]

\* next state of the random source
Rand(r) == (5 * r + 3) % RngMod

\* the draw r, read as a number in 0..99, is below the probability p (percent)
Bernoulli(r, p) == (r * 100) \div RngMod < p

\* the draw r mapped into the range
Sample(range, r) == range.lo + (r % (range.hi - range.lo + 1))

\* F(x), with the record x evaluated before F is entered (this only fixes the
\* order of evaluation: the value is F(x))
Strict(x, F(_)) == IF DOMAIN x = DOMAIN x THEN F(x) ELSE F(x)

\* cv2.resize(image, dsize): dsize is (width, height)
cv2_resize(image, dsize) ==
    [h |-> dsize[2], w |-> dsize[1],
     px |-> Append(image.px, [kind |-> "cv2.resize", a |-> dsize[1], b |-> dsize[2]])]

----------------------------------------------------------------------------
(* The two pipelines built by __init__.  A step is [kind, p, params]: p is *)
(* the application probability in percent, params the ranges its           *)
(* parameters are drawn from (fractions in hundredths).                    *)

Range(lo, hi) == [lo |-> lo, hi |-> hi]
Sym(l) == [lo |-> 0 - l, hi |-> l]

\* a mutation of Resize: the resize is applied with probability 0.5
Resize_p50 == [kind |-> "Resize", p |-> 50,
               params |-> <<Range(output_size[1], output_size[1]),
                            Range(output_size[2], output_size[2])>>]

\* A.Resize(height=output_size[0], width=output_size[1]); p is left at the
\* library's default, 1
Resize == [kind |-> "Resize", p |-> 100,
           params |-> <<Range(output_size[1], output_size[1]),
                        Range(output_size[2], output_size[2])>>]

\* self.transform
transform ==
    <<[kind |-> "Rotate", p |-> 70, params |-> <<Sym(5)>>],
      [kind |-> "ShiftScaleRotate", p |-> 70, params |-> <<Sym(5), Sym(5), Sym(3)>>],
      [kind |-> "Perspective", p |-> 50, params |-> <<Range(2, 5)>>],
      [kind |-> "GaussianBlur", p |-> 30, params |-> <<Range(3, 5)>>],
      [kind |-> "GaussNoise", p |-> 30, params |-> <<Range(5, 20)>>],
      [kind |-> "ISONoise", p |-> 20, params |-> <<Range(1, 5), Range(10, 30)>>],
      [kind |-> "RandomBrightnessContrast", p |-> 60, params |-> <<Sym(15), Sym(15)>>],
      [kind |-> "RandomGamma", p |-> 30, params |-> <<Range(90, 110)>>],
      [kind |-> "HueSaturationValue", p |-> 40, params |-> <<Sym(5), Sym(10), Sym(10)>>],
      [kind |-> "ImageCompression", p |-> 30, params |-> <<Range(85, 100)>>],
      Resize>>

\* a mutation of light_transform: a blur is added and the rotation widened
light_transform_strong ==
    <<[kind |-> "Rotate", p |-> 50, params |-> <<Sym(10)>>],
      [kind |-> "GaussianBlur", p |-> 30, params |-> <<Range(3, 5)>>],
      [kind |-> "RandomBrightnessContrast", p |-> 40, params |-> <<Sym(10), Sym(10)>>],
      Resize>>

\* self.light_transform
light_transform ==
    <<[kind |-> "Rotate", p |-> 50, params |-> <<Sym(2)>>],
      [kind |-> "RandomBrightnessContrast", p |-> 40, params |-> <<Sym(10), Sym(10)>>],
      Resize>>

\* one step of a pipeline on st = [img, rng]: a Bernoulli(p) draw, then, when it
\* succeeds, a parameter draw and the operation
ApplyStep(step, st) ==
    LET r1 == Rand(st.rng)
        r2 == Rand(r1)
        v(i) == IF i <= Len(step.params) THEN Sample(step.params[i], r2 + i) ELSE 0
    IN  IF ~Bernoulli(r1, step.p)
        THEN [img |-> st.img, rng |-> r1]
        ELSE [img |-> [h |-> IF step.kind = "Resize" THEN v(1) ELSE st.img.h,
                       w |-> IF step.kind = "Resize" THEN v(2) ELSE st.img.w,
                       px |-> Append(st.img.px,
                                     [kind |-> step.kind, a |-> v(1), b |-> v(2)])],
              rng |-> r2]

RECURSIVE Compose(_, _, _)
\* transform(image=image)['image']: the steps from the i-th on, in declared order
Compose(steps, i, st) ==
    IF i > Len(steps) THEN st
    ELSE Strict(ApplyStep(steps[i], st), LAMBDA s : Compose(steps, i + 1, s))

RECURSIVE AugmentLoop(_, _, _, _)
\* the loop of augment_image: k more applications, one after the other, from
\* acc = [images, rng].  The k applications are evaluated as the first k \div 2
\* followed by the rest, which keeps the evaluation shallow.
AugmentLoop(steps, image, k, acc) ==
    IF k <= 0 THEN acc
    ELSE IF k = 1
    THEN LET st == Compose(steps, 1, [img |-> image, rng |-> acc.rng])
         IN  [images |-> Append(acc.images, st.img), rng |-> st.rng]
    ELSE Strict(AugmentLoop(steps, image, k \div 2, acc),
                LAMBDA a : AugmentLoop(steps, image, k - (k \div 2), a))

\* a mutation of augment_image: the list of the previous direct call is kept
augment_image_stale(image, num_augmentations, light, r) ==
    AugmentLoop(IF light THEN light_transform ELSE transform, image,
                num_augmentations,
                [images |-> IF calls = <<>> THEN <<>> ELSE calls[Len(calls)].out,
                 rng |-> r])

\* augment_image(image, num_augmentations, light), run with the random source in
\* state r: [images, rng]
augment_image(image, num_augmentations, light, r) ==
    AugmentLoop(IF light THEN light_transform ELSE transform, image,
                num_augmentations, [images |-> <<>>, rng |-> r])

----------------------------------------------------------------------------
(* The file system *)

Dirs == {"out", "train", "validation"}

FileName(f) == f.stem \o f.suffix

\* Path.glob("*" + suffix), in directory order
glob(files, suffix) == SelectSeq(files, LAMBDA f : f.suffix = suffix)

\* cv2.imread(str(img_file)): the image, or None for a file that does not decode
imread(f) == f.image

EndsWith(name, suffix) ==
    /\ Len(name) >= Len(suffix)
    /\ SubSeq(name, Len(name) - Len(suffix) + 1, Len(name)) = suffix

\* cv2.imwrite(str(output_path / name), img) in a run whose state is acc: the
\* write is appended to the run's writes
imwrite(acc, d, name, img, role, f) ==
    [acc EXCEPT !.writes = Append(@, [dir |-> d, name |-> name, img |-> img,
                                      role |-> role, src |-> FileName(f)])]

\* no two writes of the log have the same path
DistinctPaths(log) ==
    Cardinality({<<log[i].dir, log[i].name>> : i \in 1..Len(log)}) = Len(log)

\* a write of the log that no later write of the log replaces
Last(log, i) ==
    \A j \in (i + 1)..Len(log) :
        ~(log[j].dir = log[i].dir /\ log[j].name = log[i].name)

\* the writes of the log that are not replaced by a later one
Kept(log) ==
    IF DistinctPaths(log) THEN 1..Len(log)
    ELSE {i \in 1..Len(log) : Last(log, i)}

\* the directories after the writes of log on the directories old: a write
\* creates the file, or replaces the file of that name
Disk(old, log) ==
    LET kept == {log[i] : i \in Kept(log)}
    IN  [d \in Dirs |->
            {x \in old[d] : \A w \in kept : ~(w.dir = d /\ w.name = x.name)}
            \cup {[name |-> w.name, img |-> w.img] : w \in {k \in kept : k.dir = d}}]

\* a mutation of InputScan: scanning a missing directory raises
InputScan_strict ==
    [raised |-> ~input_exists, files |-> IF input_exists THEN folder ELSE <<>>]

\* what Path(input_folder).glob scans: the entries of the folder, none when
\* the folder does not exist; the scan raises nothing
InputScan ==
    [raised |-> FALSE, files |-> IF input_exists THEN folder ELSE <<>>]

----------------------------------------------------------------------------
(* augment_dataset *)

RECURSIVE SaveAugmented(_, _, _, _, _)
\* for idx, aug_img in enumerate(augmented_images, 1): imwrite; total_created += 1
\* (the indices lo..hi, in increasing order)
SaveAugmented(acc, f, images, lo, hi) ==
    IF lo > hi THEN acc
    ELSE IF lo = hi
    THEN [imwrite(acc, "out", AugName(f, lo), images[lo], lo, f)
             EXCEPT !.total = @ + 1]
    ELSE Strict(SaveAugmented(acc, f, images, lo, (lo + hi) \div 2),
                LAMBDA a : SaveAugmented(a, f, images, ((lo + hi) \div 2) + 1, hi))

\* a mutation of AugmentDatasetBody: the resized original is not counted
AugmentDatasetBody_uncounted(acc, f, n, light) ==
    IF imread(f) = None
    THEN [acc EXCEPT !.msgs = Append(@, [text |-> "Could not load",
                                         name |-> FileName(f)])]
    ELSE LET a1 == imwrite(acc, "out", OriginalName(f),
                           cv2_resize(imread(f), output_size), 0, f)
             aug == augment_image(imread(f), n, light, a1.rng)
         IN  SaveAugmented([a1 EXCEPT !.rng = aug.rng], f, aug.images,
                           1, Len(aug.images))

\* the body of augment_dataset's loop, for one img_file
AugmentDatasetBody(acc, f, n, light) ==
    IF imread(f) = None
    THEN [acc EXCEPT !.msgs = Append(@, [text |-> "Could not load",
                                         name |-> FileName(f)])]
    ELSE LET a1 == imwrite(acc, "out", OriginalName(f),
                           cv2_resize(imread(f), output_size), 0, f)
             aug == augment_image(imread(f), n, light, a1.rng)
         IN  SaveAugmented([a1 EXCEPT !.total = @ + 1, !.rng = aug.rng],
                           f, aug.images, 1, Len(aug.images))

RECURSIVE AugmentDatasetLoop_abort(_, _, _, _, _)
\* a mutation of AugmentDatasetLoop: a file that does not decode ends the batch
AugmentDatasetLoop_abort(files, i, acc, n, light) ==
    IF i > Len(files) \/ imread(files[i]) = None THEN acc
    ELSE Strict(AugmentDatasetBody(acc, files[i], n, light),
                LAMBDA a : AugmentDatasetLoop_abort(files, i + 1, a, n, light))

RECURSIVE AugmentDatasetLoop(_, _, _, _, _)
\* for img_file in image_files
AugmentDatasetLoop(files, i, acc, n, light) ==
    IF i > Len(files) THEN acc
    ELSE Strict(AugmentDatasetBody(acc, files[i], n, light),
                LAMBDA a : AugmentDatasetLoop(files, i + 1, a, n, light))

\* the files augment_dataset enumerates: *.jpg, then *.png, then *.jpeg
AugmentFiles ==
    glob(InputScan.files, JPG) \o glob(InputScan.files, PNG)
        \o glob(InputScan.files, JPEG)

Max0(n) == IF n < 0 THEN 0 ELSE n

Acc0 == [writes |-> <<>>, msgs |-> <<>>, total |-> 0, rng |-> rng]

NoArgs == [n |-> 0, light |-> FALSE, train_aug |-> 0, val_aug |-> 0]

\* the body of augment_dataset: mkdir, the enumeration, the loop, the return
AugmentDatasetRun(n, light) ==
    /\ Len(AugmentFiles) * (Max0(n) + 1) <= MaxWrites
    /\ dirs' = dirs \cup {"out"}
    /\ IF InputScan.raised
       THEN /\ error' = "FileNotFoundError"
            /\ UNCHANGED <<fs, writes, msgs, rng, ret>>
       ELSE /\ \E acc \in {AugmentDatasetLoop(AugmentFiles, 1, Acc0, n, light)} :
                   /\ fs' = Disk(fs, acc.writes)
                   /\ writes' = acc.writes
                   /\ msgs' = acc.msgs
                   /\ rng' = acc.rng
                   /\ ret' = acc.total
            /\ error' = ""
    /\ args' = [NoArgs EXCEPT !.n = n, !.light = light]
    /\ UNCHANGED <<folder, input_exists, output_size, train_files, val_files,
                   summary, calls, loaderVars>>

\* augment_dataset(input_folder, output_folder, num_augmentations, light)
AugmentDataset(n, light) ==
    /\ pc = "idle"
    /\ AugmentDatasetRun(n, light)
    /\ pc' = "augment_dataset"
    /\ UNCHANGED cliVars

----------------------------------------------------------------------------
(* create_split_datasets *)

\* a mutation of TrainSplit: the index is rounded to the nearest integer
TrainSplit_round(n) == (n * 85 + 50) \div 100

\* a mutation of TrainSplit: the index is rounded up
TrainSplit_ceil(n) == (n * 85 + 99) \div 100

\* int(len(image_files) * 0.85); the float product truncates to
\* floor(85 n / 100) for every n below 200000
TrainSplit(n) == (n * 85) \div 100

\* a mutation of SplitFiles: *.jpeg is enumerated too
SplitFiles_jpeg ==
    glob(InputScan.files, JPG) \o glob(InputScan.files, PNG)
        \o glob(InputScan.files, JPEG)

\* the files create_split_datasets enumerates: *.jpg, then *.png
SplitFiles == glob(InputScan.files, JPG) \o glob(InputScan.files, PNG)

RECURSIVE SaveSplit(_, _, _, _, _, _)
\* for idx, aug_img in enumerate(augmented, 1): imwrite
\* (the indices lo..hi, in increasing order)
SaveSplit(acc, d, f, images, lo, hi) ==
    IF lo > hi THEN acc
    ELSE IF lo = hi
    THEN imwrite(acc, d, AugName(f, lo), images[lo], lo, f)
    ELSE Strict(SaveSplit(acc, d, f, images, lo, (lo + hi) \div 2),
                LAMBDA a : SaveSplit(a, d, f, images, ((lo + hi) \div 2) + 1, hi))

\* a mutation of TrainBody: the resized original is written after the variants
TrainBody_original_last(acc, f, train_aug) ==
    IF imread(f) = None THEN acc
    ELSE LET aug == augment_image(imread(f), train_aug, FALSE, acc.rng)
             a1 == SaveSplit([acc EXCEPT !.rng = aug.rng], "train", f,
                             aug.images, 1, Len(aug.images))
         IN  imwrite(a1, "train", OriginalName(f),
                     cv2_resize(imread(f), output_size), 0, f)

\* the body of the training loop, for one img_file
TrainBody(acc, f, train_aug) ==
    IF imread(f) = None THEN acc
    ELSE LET a1 == imwrite(acc, "train", OriginalName(f),
                           cv2_resize(imread(f), output_size), 0, f)
             aug == augment_image(imread(f), train_aug, FALSE, a1.rng)
         IN  SaveSplit([a1 EXCEPT !.rng = aug.rng], "train", f, aug.images,
                       1, Len(aug.images))

\* the body of the validation loop, for one img_file
ValBody(acc, f, val_aug) ==
    IF imread(f) = None THEN acc
    ELSE LET a1 == imwrite(acc, "validation", OriginalName(f),
                           cv2_resize(imread(f), output_size), 0, f)
             aug == augment_image(imread(f), val_aug, TRUE, a1.rng)
         IN  SaveSplit([a1 EXCEPT !.rng = aug.rng], "validation", f, aug.images,
                       1, Len(aug.images))

RECURSIVE TrainLoop(_, _, _, _)
\* for img_file in train_files
TrainLoop(files, i, acc, train_aug) ==
    IF i > Len(files) THEN acc
    ELSE Strict(TrainBody(acc, files[i], train_aug),
                LAMBDA a : TrainLoop(files, i + 1, a, train_aug))

RECURSIVE ValLoop(_, _, _, _)
\* for img_file in val_files
ValLoop(files, i, acc, val_aug) ==
    IF i > Len(files) THEN acc
    ELSE Strict(ValBody(acc, files[i], val_aug),
                LAMBDA a : ValLoop(files, i + 1, a, val_aug))

\* a mutation of Recount: only *.jpg is counted
Recount_jpg(dir) == Cardinality({x \in dir : EndsWith(x.name, JPG)})

\* len(list(folder.glob("*.jpg"))) + len(list(folder.glob("*.png")))
Recount(dir) ==
    Cardinality({x \in dir : EndsWith(x.name, JPG)})
        + Cardinality({x \in dir : EndsWith(x.name, PNG)})

\* a mutation of SplitRun: the two subsets are handed to the wrong loops
SplitRun_swapped(train_aug, val_aug) ==
    LET k == TrainSplit(Len(SplitFiles))
        tf == SubSeq(SplitFiles, 1, k)
        vf == SubSeq(SplitFiles, k + 1, Len(SplitFiles))
        a1 == TrainLoop(vf, 1, Acc0, train_aug)
    IN  [train_files |-> tf, val_files |-> vf,
         acc |-> ValLoop(tf, 1, a1, val_aug)]

\* the split and the two loops of create_split_datasets
SplitRun(train_aug, val_aug) ==
    LET k == TrainSplit(Len(SplitFiles))
        tf == SubSeq(SplitFiles, 1, k)
        vf == SubSeq(SplitFiles, k + 1, Len(SplitFiles))
        a1 == TrainLoop(tf, 1, Acc0, train_aug)
    IN  [train_files |-> tf, val_files |-> vf,
         acc |-> ValLoop(vf, 1, a1, val_aug)]

\* create_split_datasets(input_folder, output_base, train_aug, val_aug)
CreateSplitDatasets(train_aug, val_aug) ==
    /\ pc = "idle"
    /\ LET k == TrainSplit(Len(SplitFiles))
       IN  k * (Max0(train_aug) + 1)
             + (Len(SplitFiles) - k) * (Max0(val_aug) + 1) <= MaxWrites
    /\ IF InputScan.raised
       THEN /\ error' = "FileNotFoundError"
            /\ UNCHANGED <<train_files, val_files, fs, writes, msgs, rng,
                           summary, dirs>>
       ELSE /\ \E run \in {SplitRun(train_aug, val_aug)} :
                   /\ train_files' = run.train_files
                   /\ val_files' = run.val_files
                   /\ fs' = Disk(fs, run.acc.writes)
                   /\ writes' = run.acc.writes
                   /\ msgs' = run.acc.msgs
                   /\ rng' = run.acc.rng
                   /\ summary' = [train_count |-> Recount(fs'["train"]),
                                  val_count |-> Recount(fs'["validation"])]
            /\ dirs' = dirs \cup {"train", "validation"}
            /\ error' = ""
    /\ pc' = "create_split_datasets"
    /\ args' = [NoArgs EXCEPT !.train_aug = train_aug, !.val_aug = val_aug]
    /\ UNCHANGED <<folder, input_exists, output_size, ret, calls, cliVars,
                   loaderVars>>

----------------------------------------------------------------------------
(* augment_image called directly, and the caller seeding the random source *)

\* augmenter.augment_image(image, n, light)
AugmentImage(image, n, light) ==
    /\ Len(calls) < MaxCalls
    /\ LET r == augment_image(image, n, light, rng)
       IN  /\ calls' = Append(calls, [image |-> image, n |-> n, light |-> light,
                                      rng0 |-> rng, out |-> r.images])
           /\ rng' = r.rng
    /\ pc' = "augment_image"
    /\ UNCHANGED <<folder, output_size, dirs, fs, writes, msgs, args, ret,
                   train_files, val_files, summary, input_exists, error, cliVars,
                   loaderVars>>

\* the caller puts the random source in state s
Seed(s) ==
    /\ calls # <<>>
    /\ rng # s
    /\ rng' = s
    /\ UNCHANGED <<folder, output_size, dirs, fs, writes, msgs, pc, args, ret,
                   train_files, val_files, summary, calls, input_exists, error,
                   cliVars, loaderVars>>

----------------------------------------------------------------------------
(* Initial states *)

Image(h, w, id) == [h |-> h, w |-> w, px |-> <<Src(id)>>]

\* the files a hand-made folder is drawn from
Universe ==
    {[stem |-> <<"a">>, suffix |-> JPG, image |-> Image(4, 6, 1)],
     [stem |-> <<"a">>, suffix |-> PNG, image |-> Image(4, 6, 1)],
     [stem |-> <<"b">>, suffix |-> JPG, image |-> None],
     [stem |-> <<"c">>, suffix |-> JPEG, image |-> Image(3, 3, 2)],
     [stem |-> <<"a", "_", "a", "u", "g", "_", "0", "1">>, suffix |-> JPG,
      image |-> Image(2, 3, 3)]}

Injective(s) == \A i, j \in DOMAIN s : s[i] = s[j] => i = j

\* every folder of at most MaxFiles files of Universe, in every directory order
Folders ==
    {s \in UNION {[1..n -> Universe] : n \in 0..MaxFiles} : Injective(s)}

\* d1.jpg, d2.png, d3.jpg, ...: decodable images
BulkFile(k) == [stem |-> <<"d">> \o Dec(k),
                suffix |-> IF k % 2 = 1 THEN JPG ELSE PNG,
                image |-> Image(4, 6, k % 2)]

BulkFolder(n) == [k \in 1..n |-> BulkFile(k)]

\* output_size values: square, and height # width
Sizes == {<<2, 2>>, <<2, 3>>}

\* variant counts passed by callers
SmallCounts == -1..MaxCount

\* num_augmentations values passed to augment_dataset
Counts == SmallCounts \cup {ExampleTrain, BigCount}

\* (train_aug, val_aug) values passed to create_split_datasets
SplitCounts ==
    (SmallCounts \X SmallCounts)
        \cup {<<ExampleTrain, ExampleVal>>, <<BigCount, BigCount>>}

\* a file left in the output directories by an earlier run
Stale == [name |-> <<"a">> \o S_original \o JPG, img |-> Image(9, 9, 9)]

InitRest ==
    /\ dirs = IF fs["out"] = {} THEN {} ELSE Dirs
    /\ writes = <<>>
    /\ msgs = <<>>
    /\ pc = "idle"
    /\ args = NoArgs
    /\ ret = 0
    /\ train_files = <<>>
    /\ val_files = <<>>
    /\ summary = [train_count |-> 0, val_count |-> 0]
    /\ calls = <<>>
    /\ error = ""
    /\ argv = <<>>
    /\ usage = FALSE

\* no template loader is in use
NoLoader ==
    /\ template_dir = [exists |-> FALSE, files |-> <<>>]
    /\ templates = <<>>
    /\ requests = <<>>

\* a generated folder; a hand-made folder with empty output directories; a
\* hand-made folder with output directories an earlier run has written to; an
\* input folder that does not exist
Init ==
    /\ \/ /\ folder \in {BulkFolder(n) : n \in (MaxFiles + 1)..MaxBulk}
          /\ input_exists = TRUE
          /\ output_size = <<2, 3>>
          /\ rng = 0
          /\ fs = [d \in Dirs |-> {}]
       \/ /\ folder \in Folders
          /\ input_exists = TRUE
          /\ output_size \in Sizes
          /\ rng \in 0..MaxSeed
          /\ fs = [d \in Dirs |-> {}]
       \/ /\ folder \in Folders
          /\ input_exists = TRUE
          /\ output_size = <<2, 3>>
          /\ rng = 0
          /\ fs = [d \in Dirs |-> {Stale}]
       \/ /\ folder = <<>>
          /\ input_exists = FALSE
          /\ output_size \in Sizes
          /\ rng \in 0..MaxSeed
          /\ fs \in {[d \in Dirs |-> {}], [d \in Dirs |-> {Stale}]}
    /\ InitRest
    /\ NoLoader

Next ==
    \/ \E n \in Counts, light \in BOOLEAN : AugmentDataset(n, light)
    \/ \E c \in SplitCounts : CreateSplitDatasets(c[1], c[2])

Spec == Init /\ [][Next]_vars

\* the images of the input folder
Images == {imread(folder[i]) : i \in 1..Len(folder)} \ {None}

\* augment_image is handed one image: the folder holds the file it came from
InitImage ==
    /\ folder \in {<<f>> : f \in Universe}
    /\ input_exists = TRUE
    /\ output_size \in Sizes
    /\ rng \in 0..MaxSeed
    /\ fs = [d \in Dirs |-> {}]
    /\ InitRest
    /\ NoLoader

NextImage ==
    \/ \E image \in Images, n \in 0..MaxCount, light \in BOOLEAN :
          AugmentImage(image, n, light)
    \/ \E s \in 0..MaxSeed : Seed(s)

SpecImage == InitImage /\ [][NextImage]_vars

----------------------------------------------------------------------------
(* The template loader (src/src/utils/template_loader.py, TemplateLoader).  *)
(* A JSON object is a record of its members; a dict built by the code is a  *)
(* sequence of [key, value] pairs in insertion order.                       *)

MaxTemplates == 2  \* entries of the template directory
MaxRequests == 2   \* calls made on one loader

\* dict membership, lookup and item assignment
DictKeys(d) == {d[i].key : i \in 1..Len(d)}

DictGet(d, k) == d[CHOOSE i \in 1..Len(d) : d[i].key = k].value

DictSet(d, k, v) ==
    IF k \in DictKeys(d)
    THEN [i \in 1..Len(d) |->
             IF d[i].key = k THEN [key |-> k, value |-> v] ELSE d[i]]
    ELSE Append(d, [key |-> k, value |-> v])

\* object.get(key, default)
Get(object, key, default) ==
    IF key \in DOMAIN object THEN object[key] ELSE default

\* the entries a template directory is drawn from: json is what the file's
\* text parses to ("object", "array", or "garbage" when it does not parse)
TemplateUniverse ==
    {[stem |-> "national_id", suffix |-> ".json", json |-> "object",
      value |-> [document_type |-> "kenyan_national_id",
                 security_features |-> "sf1", data_fields |-> "df1",
                 forgery_indicators |-> "fi1", validation_rules |-> "vr1"]],
     [stem |-> "passport", suffix |-> ".json", json |-> "object",
      value |-> [security_features |-> "sf2"]],
     [stem |-> "id_v2", suffix |-> ".json", json |-> "object",
      value |-> [document_type |-> "kenyan_national_id",
                 data_fields |-> "df3"]],
     [stem |-> "broken", suffix |-> ".json", json |-> "garbage",
      value |-> [text |-> "{"]],
     [stem |-> "list", suffix |-> ".json", json |-> "array",
      value |-> [text |-> "[]"]],
     [stem |-> "readme", suffix |-> ".txt", json |-> "garbage",
      value |-> [text |-> "notes"]]}

\* the document types callers ask for
DocTypes == {"kenyan_national_id", "passport", "passport_v2"}

\* self.template_dir.glob("*.json"), an empty scan when the directory is missing
JsonFiles(dir) ==
    IF dir.exists THEN SelectSeq(dir.files, LAMBDA f : f.suffix = ".json")
    ELSE <<>>

\* json.load(f): the parsed value, or a JSONDecodeError
json_load(file) ==
    IF file.json = "garbage"
    THEN [raised |-> "JSONDecodeError", json |-> "none", value |-> file.value]
    ELSE [raised |-> "", json |-> file.json, value |-> file.value]

\* a mutation of DocType: the template is registered under its file stem
DocType_stem(template, file) == file.stem

\* template.get("document_type", template_file.stem)
DocType(template, file) == Get(template, "document_type", file.stem)

\* the body of the loop of _load_all_templates for one template_file: the try
\* block, and the except block that reports and goes on
LoadTemplate(acc, file) ==
    LET parsed == json_load(file)
        failure == IF parsed.raised # "" THEN parsed.raised
                   ELSE IF parsed.json # "object" THEN "AttributeError"
                   ELSE ""
    IN  IF failure # ""
        THEN [acc EXCEPT !.msgs = Append(@, [text |-> "Error loading",
                                             name |-> <<file.stem, file.suffix>>])]
        ELSE [templates |-> DictSet(acc.templates,
                                    DocType(parsed.value, file), parsed.value),
              msgs |-> Append(acc.msgs,
                              [text |-> "Loaded template",
                               name |-> <<DocType(parsed.value, file)>>])]

RECURSIVE LoadLoop_abort(_, _, _)
\* a mutation of LoadLoop: the first file that fails to load ends the loop
LoadLoop_abort(files, i, acc) ==
    IF i > Len(files) THEN acc
    ELSE LET a == LoadTemplate(acc, files[i])
         IN  IF a.templates = acc.templates /\ Len(a.msgs) > Len(acc.msgs)
                  /\ a.msgs[Len(a.msgs)].text = "Error loading"
             THEN a
             ELSE LoadLoop_abort(files, i + 1, a)

RECURSIVE LoadLoop(_, _, _)
\* for template_file in self.template_dir.glob("*.json")
LoadLoop(files, i, acc) ==
    IF i > Len(files) THEN acc
    ELSE LoadLoop(files, i + 1, LoadTemplate(acc, files[i]))

\* _load_all_templates on the empty self.templates
LoadAllTemplates(dir) ==
    IF ~dir.exists
    THEN [templates |-> <<>>,
          msgs |-> <<[text |-> "Warning: Template directory not found",
                      name |-> <<>>]>>]
    ELSE LoadLoop(JsonFiles(dir), 1, [templates |-> <<>>, msgs |-> <<>>])

\* TemplateLoader(template_dir)
TemplateLoaderInit ==
    /\ pc = "idle"
    /\ \E acc \in {LoadAllTemplates(template_dir)} :
           /\ templates' = acc.templates
           /\ msgs' = acc.msgs
    /\ pc' = "TemplateLoader"
    /\ UNCHANGED <<folder, output_size, rng, dirs, fs, writes, args, ret,
                   train_files, val_files, summary, calls, input_exists, error,
                   cliVars, template_dir, requests>>

\* a mutation of get_template: a type that is asked for and missing is
\* registered with an empty template
get_template_setdefault(reg, doc_type) ==
    IF doc_type \notin DictKeys(reg)
    THEN [raised |-> "ValueError", value |-> [text |-> "No template found"],
          templates |-> DictSet(reg, doc_type, [text |-> "{}"])]
    ELSE [raised |-> "", value |-> DictGet(reg, doc_type), templates |-> reg]

\* get_template(doc_type) on the registry reg: what it raises, what it returns,
\* and the registry it leaves
get_template(reg, doc_type) ==
    IF doc_type \notin DictKeys(reg)
    THEN [raised |-> "ValueError", value |-> [text |-> "No template found"],
          templates |-> reg]
    ELSE [raised |-> "", value |-> DictGet(reg, doc_type), templates |-> reg]

\* self.get_template(doc_type).get(field, default): the exception of
\* get_template propagates
Accessor(reg, doc_type, field, default) ==
    LET t == get_template(reg, doc_type)
    IN  IF t.raised # "" THEN t
        ELSE [t EXCEPT !.value = [text |-> Get(t.value, field, default)]]

\* a mutation of get_security_features: an unknown type gets the default
get_security_features_lenient(reg, doc_type) ==
    IF doc_type \notin DictKeys(reg)
    THEN [raised |-> "", value |-> [text |-> "{}"], templates |-> reg]
    ELSE Accessor(reg, doc_type, "security_features", "{}")

get_security_features(reg, doc_type) ==
    Accessor(reg, doc_type, "security_features", "{}")

get_data_fields(reg, doc_type) ==
    Accessor(reg, doc_type, "data_fields", "{}")

get_forgery_indicators(reg, doc_type) ==
    Accessor(reg, doc_type, "forgery_indicators", "[]")

get_validation_rules(reg, doc_type) ==
    Accessor(reg, doc_type, "validation_rules", "{}")

\* list(self.templates.keys())
list_supported_documents(reg) ==
    [raised |-> "", value |-> [keys |-> [i \in 1..Len(reg) |-> reg[i].key]],
     templates |-> reg]

\* the methods that take a document type
Ops ==
    {"get_template", "get_security_features", "get_data_fields",
     "get_forgery_indicators", "get_validation_rules"}

Call(op, reg, doc_type) ==
    CASE op = "get_template" -> get_template(reg, doc_type)
      [] op = "get_security_features" -> get_security_features(reg, doc_type)
      [] op = "get_data_fields" -> get_data_fields(reg, doc_type)
      [] op = "get_forgery_indicators" -> get_forgery_indicators(reg, doc_type)
      [] op = "get_validation_rules" -> get_validation_rules(reg, doc_type)
      [] op = "list_supported_documents" -> list_supported_documents(reg)

\* one call on the loader; an exception ends that call only
Request(op, doc_type) ==
    /\ pc = "TemplateLoader"
    /\ Len(requests) < MaxRequests
    /\ \E r \in {Call(op, templates, doc_type)} :
           /\ templates' = r.templates
           /\ requests' = Append(requests, [op |-> op, doc_type |-> doc_type,
                                            raised |-> r.raised,
                                            value |-> r.value])
    /\ UNCHANGED <<folder, output_size, rng, dirs, fs, writes, msgs, pc, args,
                   ret, train_files, val_files, summary, calls, input_exists,
                   error, cliVars, template_dir>>

\* every template directory of at most MaxTemplates entries, in every glob
\* order, and the directory that does not exist
TemplateDirs ==
    {[exists |-> TRUE, files |-> s] :
        s \in {q \in UNION {[1..n -> TemplateUniverse] : n \in 0..MaxTemplates} :
                  Injective(q)}}
        \cup {[exists |-> FALSE, files |-> <<>>]}

InitLoader ==
    /\ template_dir \in TemplateDirs
    /\ templates = <<>>
    /\ requests = <<>>
    /\ folder = <<>>
    /\ input_exists = TRUE
    /\ output_size = <<2, 2>>
    /\ rng = 0
    /\ fs = [d \in Dirs |-> {}]
    /\ InitRest

NextLoader ==
    \/ TemplateLoaderInit
    \/ \E op \in Ops, d \in DocTypes : Request(op, d)
    \/ Request("list_supported_documents", "")

SpecLoader == InitLoader /\ [][NextLoader]_vars

----------------------------------------------------------------------------
(* Properties *)

AugmentDone == pc = "augment_dataset"
SplitDone == pc = "create_split_datasets"

\* the files of a list that decode
Decodable(files) == SelectSeq(files, LAMBDA f : imread(f) # None)

\* the output directories did not exist before the run
FreshAugment == dirs = {"out"}
FreshSplit == dirs = {"train", "validation"}

\* k = floor(0.85 N)
IsFloor85(k, N) == 100 * k <= 85 * N /\ 85 * N < 100 * (k + 1)

\* the files of a directory
Count(d) == Cardinality(fs[d])

\* C1: create_split_datasets puts the first floor(0.85 N) files of the
\* enumeration in the training subset and the rest in the validation subset:
\* the sizes add up to N and no file is in both.
C1_SplitPrefix ==
    SplitDone =>
        /\ IsFloor85(Len(train_files), Len(SplitFiles))
        /\ train_files = SubSeq(SplitFiles, 1, Len(train_files))
        /\ val_files = SubSeq(SplitFiles, Len(train_files) + 1, Len(SplitFiles))
        /\ Len(train_files) + Len(val_files) = Len(SplitFiles)
        /\ \A i \in 1..Len(train_files), j \in 1..Len(val_files) :
              train_files[i] # val_files[j]

\* a split of 20 files in 17 and 3
C1_Witness ==
    SplitDone /\ Len(SplitFiles) = MaxBulk
        /\ Len(train_files) >= 2 /\ Len(val_files) >= 2

\* C2: after augment_dataset on a folder of K decodable images and any number
\* of undecodable ones, with a count >= 0 and an output folder that was empty,
\* the output folder holds exactly K * (count + 1) files, none of them written
\* for an undecodable file.
C2_OutputCount ==
    (AugmentDone /\ FreshAugment /\ args.n >= 0) =>
        /\ Count("out") = Len(Decodable(AugmentFiles)) * (args.n + 1)
        /\ \A i \in 1..Len(writes) :
              \E k \in 1..Len(AugmentFiles) :
                  /\ FileName(AugmentFiles[k]) = writes[i].src
                  /\ imread(AugmentFiles[k]) # None

\* an undecodable file is enumerated before a decodable one, which is processed
C2_Witness ==
    /\ AugmentDone /\ FreshAugment /\ args.n >= 1
    /\ \E i, j \in 1..Len(AugmentFiles) :
          /\ i < j
          /\ imread(AugmentFiles[i]) = None
          /\ imread(AugmentFiles[j]) # None
    /\ Count("out") = Len(Decodable(AugmentFiles)) * (args.n + 1)
    /\ Count("out") > 0

\* C3, as stated: augment_dataset returns (count + 1) times the number of
\* loaded images, for every count.
C3_Original ==
    AugmentDone => ret = (args.n + 1) * Len(Decodable(AugmentFiles))

\* C3, amended: augment_dataset returns the number of files it wrote, which is
\* (count + 1) per loaded image for a count >= 0 and 1 per loaded image for a
\* negative count.
C3_ReturnValue ==
    AugmentDone =>
        /\ ret = Len(writes)
        /\ ret = (Max0(args.n) + 1) * Len(Decodable(AugmentFiles))

\* a negative count: one file per loaded image
C3_Witness ==
    /\ AugmentDone /\ args.n < 0
    /\ Len(Decodable(AugmentFiles)) >= 2
    /\ ret = Len(Decodable(AugmentFiles))

\* the writes of the run into directory d for source file f
WritesFor(d, f) ==
    {i \in 1..Len(writes) : writes[i].dir = d /\ writes[i].src = FileName(f)}

\* the names of the files of a list
NamesOf(files) == {FileName(files[i]) : i \in 1..Len(files)}

\* the operations applied to a written variant, after its source
OpsOf(img) == {img.px[i] : i \in 2..Len(img.px)}

\* an operation the light pipeline can apply, within the light ranges
LightOp(op) ==
    \/ op.kind = "Rotate" /\ op.a \in -2..2
    \/ op.kind = "RandomBrightnessContrast" /\ op.a \in -10..10 /\ op.b \in -10..10
    \/ op.kind = "Resize"

Batches ==
    IF AugmentDone
    THEN {[d |-> "out", files |-> AugmentFiles, c |-> args.n]}
    ELSE IF SplitDone
    THEN {[d |-> "train", files |-> train_files, c |-> args.train_aug],
          [d |-> "validation", files |-> val_files, c |-> args.val_aug]}
    ELSE {}

IsDigits(D) == \A i \in 1..Len(D) : \E k \in 1..10 : Digits[k] = D[i]

RECURSIVE Value(_)
\* the number a sequence of digits denotes
Value(D) ==
    IF D = <<>> THEN 0
    ELSE 10 * Value(SubSeq(D, 1, Len(D) - 1))
            + ((CHOOSE k \in 1..10 : Digits[k] = D[Len(D)]) - 1)

\* name is stem, "_original", suffix
IsOriginalName(name, f) ==
    /\ Len(name) = Len(f.stem) + Len(S_original) + Len(f.suffix)
    /\ SubSeq(name, 1, Len(f.stem)) = f.stem
    /\ SubSeq(name, Len(f.stem) + 1, Len(f.stem) + Len(S_original)) = S_original
    /\ EndsWith(name, f.suffix)

\* name is stem, "_aug_", the index idx in `width' decimal digits, suffix
IsAugName(name, f, idx, width) ==
    /\ Len(name) = Len(f.stem) + Len(S_aug) + width + Len(f.suffix)
    /\ SubSeq(name, 1, Len(f.stem)) = f.stem
    /\ SubSeq(name, Len(f.stem) + 1, Len(f.stem) + Len(S_aug)) = S_aug
    /\ EndsWith(name, f.suffix)
    /\ LET D == SubSeq(name, Len(f.stem) + Len(S_aug) + 1,
                       Len(name) - Len(f.suffix))
       IN  IsDigits(D) /\ Value(D) = idx

\* the digits of idx, and no fewer than two
PaddedWidth(idx) ==
    IF idx < 100 THEN 2 ELSE IF idx < 1000 THEN 3 ELSE 4

\* the files written for every loaded file of every batch are the original
\* and the variants 1..c, the variant idx named with Width(idx) digits
NamedWith(Width(_)) ==
    \A b \in Batches : \A k \in 1..Len(b.files) :
        LET f == b.files[k]
            W == WritesFor(b.d, f)
        IN  IF imread(f) = None THEN W = {}
            ELSE /\ {writes[i].role : i \in W} = 0..Max0(b.c)
                 /\ Cardinality(W) = Max0(b.c) + 1
                 /\ \A i \in W :
                       IF writes[i].role = 0
                       THEN IsOriginalName(writes[i].name, f)
                       ELSE IsAugName(writes[i].name, f, writes[i].role,
                                      Width(writes[i].role))

Two(idx) == 2

\* C5, as stated: the files written for a loaded file are s_original+x and
\* s_aug_NN+x for each index 1..c, NN being the index in exactly two digits.
C5_Original == NamedWith(Two)

\* C5, amended: the files written for a loaded file are s_original+x and
\* s_aug_NN+x for each index 1..c, NN being the index in decimal, zero-padded
\* to two digits: two digits up to 99, the index's own digits from 100 on;
\* in augment_dataset and in both subsets of create_split_datasets.
C5_Naming == NamedWith(PaddedWidth)

\* variants 9, 10 and 100 of one source file have been written
C5_Witness ==
    \E b \in Batches : \E k \in 1..Len(b.files) :
        /\ b.c >= BigCount
        /\ {9, 10, 100} \subseteq {writes[i].role : i \in WritesFor(b.d, b.files[k])}

\* C6: no two writes of a batch run have the same path: different (source
\* file, role) pairs get different file names.
C6_NoOverwrite ==
    /\ Cardinality({<<writes[i].dir, writes[i].src, writes[i].role>> :
                        i \in 1..Len(writes)}) = Len(writes)
    /\ Cardinality({<<writes[i].dir, writes[i].name>> : i \in 1..Len(writes)})
          = Len(writes)

\* a.jpg, a.png and a_aug_01.jpg are all written with variants in one batch
C6_Witness ==
    /\ AugmentDone
    /\ {<<<<"a">> \o JPG, 1>>, <<<<"a">> \o PNG, 1>>,
         <<<<"a">> \o S_aug \o <<"0", "1">> \o JPG, 0>>}
          \subseteq {<<writes[i].src, writes[i].role>> : i \in 1..Len(writes)}

\* the resize is the last step of the pipeline, its only resize, with
\* probability 1
ResizeLast(steps) ==
    /\ steps # <<>>
    /\ steps[Len(steps)].kind = "Resize"
    /\ steps[Len(steps)].p = 100
    /\ steps[Len(steps)].params
          = <<Range(output_size[1], output_size[1]),
              Range(output_size[2], output_size[2])>>
    /\ \A i \in 1..(Len(steps) - 1) : steps[i].kind # "Resize"

\* C7: in both pipelines the resize to the configured (height, width) is the
\* last step, with probability 1, and every variant written has exactly the
\* configured height and width.
C7_FixedShape ==
    /\ ResizeLast(transform)
    /\ ResizeLast(light_transform)
    /\ \A i \in 1..Len(writes) :
          writes[i].role >= 1 =>
              /\ writes[i].img.h = output_size[1]
              /\ writes[i].img.w = output_size[2]

\* variants of a 4 x 6 source, one with no stochastic step applied and one
\* with some
C7_Witness ==
    /\ <<4, 6>> # output_size
    /\ \E i \in 1..Len(writes) :
          /\ writes[i].role >= 1
          /\ writes[i].img.px[1] = Src(1)
          /\ Len(writes[i].img.px) = 2
          /\ writes[i].img.h = output_size[1]
          /\ writes[i].img.w = output_size[2]
    /\ \E j \in 1..Len(writes) :
          /\ writes[j].role >= 1
          /\ writes[j].img.px[1] = Src(1)
          /\ Len(writes[j].img.px) >= 4

Weaker(l, f) ==
    /\ l.kind = f.kind
    /\ l.p <= f.p
    /\ Len(l.params) = Len(f.params)
    /\ \A k \in 1..Len(l.params) :
          f.params[k].lo <= l.params[k].lo /\ l.params[k].hi <= f.params[k].hi

\* the kinds the light pipeline never applies
NotInLight ==
    {"Perspective", "GaussianBlur", "GaussNoise", "ISONoise", "RandomGamma",
     "HueSaturationValue", "ImageCompression"}

\* the variants written by the light pipeline
LightWrites ==
    {i \in 1..Len(writes) :
        /\ writes[i].role >= 1
        /\ \/ AugmentDone /\ args.light
           \/ writes[i].dir = "validation"}

\* C9: every step of the light pipeline is a step of the full pipeline with a
\* probability and ranges no larger, the light pipeline has fewer steps, and
\* no light variant carries a perspective warp, blur, noise, gamma, HSV or
\* recompression, or an operation outside the light ranges.
C9_LightWeaker ==
    /\ Len(light_transform) < Len(transform)
    /\ \A i \in 1..Len(light_transform) :
          /\ \E j \in 1..Len(transform) : Weaker(light_transform[i], transform[j])
          /\ light_transform[i].kind \notin NotInLight
    /\ \A i \in LightWrites : \A op \in OpsOf(writes[i].img) :
          op.kind \notin NotInLight /\ LightOp(op)

\* a light variant with a rotation and a brightness change applied
C9_Witness ==
    \E i \in LightWrites :
        {"Rotate", "RandomBrightnessContrast", "Resize"}
            = {op.kind : op \in OpsOf(writes[i].img)}

\* C10, as stated: in every batch operation each source file that fails to
\* decode produces a user-visible message.
C10_Original ==
    \A b \in Batches : \A k \in 1..Len(b.files) :
        imread(b.files[k]) = None =>
            \E m \in 1..Len(msgs) : msgs[m].name = FileName(b.files[k])

\* C11: when the input folder does not exist, augment_dataset and
\* create_split_datasets end without an error and without writing a file, the
\* enumeration being empty; augment_dataset returns 0.
C11_MissingInput ==
    ((AugmentDone \/ SplitDone) /\ ~input_exists) =>
        /\ error = ""
        /\ writes = <<>>
        /\ \A d \in Dirs : fs[d] \subseteq {Stale}
        /\ AugmentDone => (AugmentFiles = <<>> /\ ret = 0)
        /\ SplitDone => (train_files = <<>> /\ val_files = <<>>)

\* augment_dataset has returned from a folder that does not exist, having
\* created the output folder only
C11_Witness ==
    /\ AugmentDone
    /\ ~input_exists
    /\ args.n = ExampleTrain
    /\ "out" \in dirs
    /\ fs["out"] = {}
    /\ ret = 0

LoaderReady == pc = "TemplateLoader"

\* C12: a request for a document type that is not a key of the registry ends
\* with an error, whichever accessor makes it; the registry stays as
\* construction left it, and every request for a registered type succeeds,
\* failures before it or not.
C12_UnknownType ==
    LoaderReady =>
        /\ templates = LoadAllTemplates(template_dir).templates
        /\ \A i \in 1..Len(requests) :
              requests[i].op \in Ops =>
                  IF requests[i].doc_type \in DictKeys(templates)
                  THEN requests[i].raised = ""
                  ELSE requests[i].raised = "ValueError"

\* "passport_v2" is asked for when only "kenyan_national_id" is registered,
\* and the next request, for the registered type, is answered
C12_Witness ==
    /\ LoaderReady
    /\ DictKeys(templates) = {"kenyan_national_id"}
    /\ Len(requests) = 2
    /\ requests[1].op = "get_security_features"
    /\ requests[1].doc_type = "passport_v2"
    /\ requests[1].raised = "ValueError"
    /\ requests[2].op = "get_security_features"
    /\ requests[2].doc_type = "kenyan_national_id"
    /\ requests[2].raised = ""
    /\ requests[2].value = [text |-> "sf1"]

\* C13: after construction every key k of the registry is held once, and
\* get_template(k) returns a template whose document_type, when it has one, is
\* k; a template without one is a file of the directory registered under its
\* stem.
C13_KeyIsDocumentType ==
    LoaderReady =>
        /\ Cardinality(DictKeys(templates)) = Len(templates)
        /\ \A k \in DictKeys(templates) :
              LET t == get_template(templates, k)
              IN  /\ t.raised = ""
                  /\ IF "document_type" \in DOMAIN t.value
                     THEN t.value.document_type = k
                     ELSE \E i \in 1..Len(template_dir.files) :
                             /\ template_dir.files[i].stem = k
                             /\ template_dir.files[i].suffix = ".json"
                             /\ template_dir.files[i].json = "object"
                             /\ template_dir.files[i].value = t.value

\* id_v2.json is registered under its document_type, passport.json, which has
\* none, under its stem
C13_Witness ==
    /\ LoaderReady
    /\ Len(templates) = 2
    /\ DictKeys(templates) = {"kenyan_national_id", "passport"}
    /\ DictGet(templates, "kenyan_national_id") =
           [document_type |-> "kenyan_national_id", data_fields |-> "df3"]
    /\ DictGet(templates, "passport") = [security_features |-> "sf2"]

----------------------------------------------------------------------------
(* The command line of augmentation.py *)

\* num_aug when sys.argv holds no count
DefaultCount == 10

\* DocumentAugmenter(): the default output_size, a square
DefaultSize == <<2, 2>>

\* int(token): the value of an optionally signed run of digits, a ValueError
\* for any other token
int(token) ==
    IF Len(token) >= 1 /\ IsDigits(token)
    THEN [raised |-> "", value |-> Value(token)]
    ELSE IF Len(token) >= 2 /\ token[1] = "-" /\ IsDigits(Tail(token))
    THEN [raised |-> "", value |-> 0 - Value(Tail(token))]
    ELSE [raised |-> "ValueError", value |-> 0]

\* a mutation of HasArguments: one argument is enough
HasArguments_one(av) == Len(av) >= 2

\* len(sys.argv) >= 3, sys.argv[0] being the script
HasArguments(av) == Len(av) >= 3

\* int(sys.argv[3]) if len(sys.argv) > 3 else 10
NumAug(av) ==
    IF Len(av) > 3 THEN int(av[4])
    ELSE [raised |-> "", value |-> DefaultCount]

\* python src/preprocessing/augmentation.py <arguments>: the usage text, then
\* augment_dataset when there are arguments
Main(av) ==
    /\ pc = "idle"
    /\ argv' = av
    /\ usage' = TRUE
    /\ IF HasArguments(av)
       THEN IF NumAug(av).raised # ""
            THEN /\ error' = NumAug(av).raised
                 /\ pc' = "main"
                 /\ UNCHANGED <<folder, output_size, rng, dirs, fs, writes,
                                msgs, args, ret, train_files, val_files,
                                summary, calls, input_exists, loaderVars>>
            ELSE /\ AugmentDatasetRun(NumAug(av).value, FALSE)
                 /\ pc' = "augment_dataset"
       ELSE /\ error' = ""
            /\ pc' = "main"
            /\ UNCHANGED <<folder, output_size, rng, dirs, fs, writes, msgs,
                           args, ret, train_files, val_files, summary, calls,
                           input_exists, loaderVars>>

\* the tokens of a command line
T_script == <<"a", "u", "g">>
T_input == <<"i", "n">>
T_output == <<"o", "u", "t">>
CountTokens == {<<"0">>, <<"1">>, <<"-", "1">>, <<"1", "0">>, <<"x">>}

\* sys.argv for no, one, two, three and four arguments
Argvs ==
    {<<T_script>>, <<T_script, T_input>>, <<T_script, T_input, T_output>>}
        \cup {<<T_script, T_input, T_output, c>> : c \in CountTokens}
        \cup {<<T_script, T_input, T_output, c, T_output>> : c \in CountTokens}

InitMain == Init /\ output_size = DefaultSize

NextMain == \E av \in Argvs : Main(av)

SpecMain == InitMain /\ [][NextMain]_vars

\* the command line has run and called no batch operation
NoAction ==
    /\ pc = "main"
    /\ writes = <<>>
    /\ msgs = <<>>
    /\ args = NoArgs
    /\ dirs \in {{}, Dirs}
    /\ \A d \in Dirs : fs[d] \subseteq {Stale}

\* C14, as stated: with fewer than the three arguments the command line
\* prints usage, performs no action and ends normally.
C14_Original ==
    (argv # <<>> /\ Len(argv) - 1 < 3) => (usage /\ NoAction /\ error = "")

\* C14: the command line always prints usage; with fewer than two arguments
\* it performs no action and ends normally; with the two folders and no count
\* it runs augment_dataset with the full pipeline and the count 10.
C14_TooFewArguments ==
    argv # <<>> =>
        /\ usage
        /\ Len(argv) - 1 < 2 => (NoAction /\ error = "")
        /\ Len(argv) - 1 = 2 =>
              /\ AugmentDone
              /\ args = [NoArgs EXCEPT !.n = DefaultCount]
              /\ "out" \in dirs
              /\ ret = Len(Decodable(AugmentFiles)) * (DefaultCount + 1)
              /\ error = ""

\* the command line was given the input folder alone, a folder of images, and
\* has ended
C14_Witness ==
    /\ argv = <<T_script, T_input>>
    /\ Len(Decodable(AugmentFiles)) >= 2
    /\ usage
    /\ NoAction

\* the .jpeg files of the input folder
JpegFiles == glob(InputScan.files, JPEG)

\* C15: create_split_datasets puts a .jpeg file of the input folder in neither
\* subset and writes nothing for it; augment_dataset enumerates the same file
\* and, when it decodes, writes its resized original and its variants.
C15_JpegIgnored ==
    \A i \in 1..Len(JpegFiles) :
        LET f == JpegFiles[i]
        IN  /\ SplitDone =>
                  /\ FileName(f) \notin NamesOf(train_files) \cup NamesOf(val_files)
                  /\ \A w \in 1..Len(writes) : writes[w].src # FileName(f)
            /\ AugmentDone =>
                  /\ FileName(f) \in NamesOf(AugmentFiles)
                  /\ imread(f) # None =>
                        Cardinality(WritesFor("out", f)) = Max0(args.n) + 1

\* the split has run on a folder holding c.jpeg and two other images, and has
\* written files for those
C15_Witness ==
    /\ SplitDone
    /\ Len(JpegFiles) = 1
    /\ Len(SplitFiles) = 2
    /\ Len(train_files) = 1 /\ Len(val_files) = 1
    /\ writes # <<>>

\* the writes of the run into the directory d
WritesInto(d) == {i \in 1..Len(writes) : writes[i].dir = d}

\* C16: the counts create_split_datasets reports are the numbers of files in
\* train and in validation once all writing is done, whatever was in them
\* before the run and whichever source files failed to decode.
C16_Recount ==
    SplitDone =>
        /\ summary.train_count = Cardinality(fs["train"])
        /\ summary.val_count = Cardinality(fs["validation"])

\* a run over a training subset with a file that does not decode, into a
\* folder an earlier run left a file in: the report is neither the number of
\* files the run wrote nor the number it planned
C16_Witness ==
    /\ SplitDone
    /\ Stale \in fs["train"]
    /\ Decodable(train_files) # train_files
    /\ Decodable(train_files) # <<>>
    /\ summary.train_count = Cardinality(WritesInto("train")) + 1
    /\ summary.train_count # Len(train_files) * (Max0(args.train_aug) + 1)

\* C17: once the loader is constructed no step changes the registry: the set
\* of registered types and every registered template stay as loaded, whichever
\* method is called and whether it returns or raises.
C17_ReadOnly == [][LoaderReady => templates' = templates]_vars

\* a failing request and a successful one have been made on a registry of two
\* templates, which is as construction left it
C17_Witness ==
    /\ LoaderReady
    /\ Len(templates) = 2
    /\ Len(requests) = 2
    /\ requests[1].op = "get_template"
    /\ requests[1].raised = "ValueError"
    /\ requests[2].op = "get_data_fields"
    /\ requests[2].raised = ""
    /\ templates = LoadAllTemplates(template_dir).templates

\* the files looped over for the directory d, and the variant count asked for
FilesOf(d) ==
    IF d = "out" THEN AugmentFiles
    ELSE IF d = "train" THEN train_files ELSE val_files

CountOf(d) ==
    IF d = "out" THEN args.n
    ELSE IF d = "train" THEN args.train_aug ELSE args.val_aug

\* the position of the file called name in the list files
Pos(files, name) == CHOOSE k \in 1..Len(files) : FileName(files[k]) = name

\* C18: the writes of a batch operation come one source image after another:
\* the resized original first, then the variants 1, 2, ... up to the count,
\* then the next source image of the enumeration; and in create_split_datasets
\* every write under train comes before every write under validation.
C18_WriteOrder ==
    (AugmentDone \/ SplitDone) =>
        /\ writes # <<>> => writes[1].role = 0
        /\ \A i \in 1..(Len(writes) - 1) :
              LET a == writes[i]
                  b == writes[i + 1]
              IN  IF a.dir = b.dir /\ a.src = b.src
                  THEN b.role = a.role + 1
                  ELSE /\ a.role = Max0(CountOf(a.dir))
                       /\ b.role = 0
                       /\ IF a.dir = b.dir
                          THEN Pos(FilesOf(a.dir), a.src) < Pos(FilesOf(a.dir), b.src)
                          ELSE a.dir = "train" /\ b.dir = "validation"

\* a split with two images written under train and one under validation, each
\* with variants
C18_Witness ==
    /\ SplitDone
    /\ args.train_aug = ExampleTrain /\ args.val_aug = ExampleVal
    /\ Len(Decodable(train_files)) >= 2
    /\ Len(Decodable(val_files)) >= 1
    /\ Len(writes) = Len(Decodable(train_files)) * (ExampleTrain + 1)
                       + Len(Decodable(val_files)) * (ExampleVal + 1)
    /\ writes[Len(writes)].dir = "validation"
    /\ writes[Len(writes)].role = ExampleVal

\* C19, as stated: for every output_size, square or not, the resized original
\* written for a source image has the height and the width of every variant
\* written for that image.
C19_Original ==
    \A i \in 1..(Len(writes) - 1) :
        (writes[i].dir = writes[i + 1].dir /\ writes[i].src = writes[i + 1].src)
            => /\ writes[i].img.h = writes[i + 1].img.h
               /\ writes[i].img.w = writes[i + 1].img.w

\* C20: with N >= 1 files enumerated the validation subset is not empty; the
\* training subset is empty exactly when N <= 1; with N = 0 both are empty and
\* create_split_datasets ends without an error.
C20_SubsetSizes ==
    SplitDone =>
        /\ Len(SplitFiles) >= 1 => val_files # <<>>
        /\ train_files = <<>> <=> Len(SplitFiles) <= 1
        /\ Len(SplitFiles) = 0 =>
              (train_files = <<>> /\ val_files = <<>> /\ writes = <<>>)
        /\ error = ""

\* the split of a folder of one image: nothing to train on, the image and its
\* variant under validation
C20_Witness ==
    /\ SplitDone
    /\ Len(SplitFiles) = 1
    /\ train_files = <<>>
    /\ val_files = SplitFiles
    /\ args.val_aug = 1
    /\ Cardinality(WritesInto("validation")) = 2
    /\ WritesInto("train") = {}

\* the positions of the *.json entries of the template directory
JsonEntries ==
    {i \in 1..Len(template_dir.files) : template_dir.files[i].suffix = ".json"}

\* the *.json entries whose text parses
Parseable == {i \in JsonEntries : template_dir.files[i].json # "garbage"}

\* the *.json entries whose text parses to an object
Objects == {i \in JsonEntries : template_dir.files[i].json = "object"}

\* the key the entry at position i is registered under
KeyOf(i) ==
    Get(template_dir.files[i].value, "document_type", template_dir.files[i].stem)

\* the message of the given text and name has been printed
Printed(text, name) ==
    \E m \in 1..Len(msgs) : msgs[m].text = text /\ msgs[m].name = name

====
